---------------------------- MODULE Spec2Model ----------------------------
(***************************************************************************)
(* A model of marc.go, a minimal static-site generator: metadata           *)
(* extraction (readMeta), URL derivation (readPage), ordering of the       *)
(* documents (Pages.Less under sort.Stable), the dateformat template       *)
(* function, layout resolution (readTmpl) and the discovery / render loop  *)
(* of main.                                                                *)
(*                                                                         *)
(* Go strings and byte slices are sequences of one-character strings.      *)
(* Go indices are 0-based: b[lo:hi] is SubSeq(b, lo+1, hi).                *)
(***************************************************************************)
EXTENDS Integers, Sequences, FiniteSets, TLC

VARIABLES
    pc,          \* position of main, or of a function applied on its own
    dateFormats, \* the package-level map dateFormats
    arg,         \* argument of a function applied on its own
    ret,         \* its result
    site,        \* the source files under the site root: path -> content
    disk,        \* the output files on disk: path -> bytes
    baseTmpl,    \* main's baseTmpl
    walk,        \* index into WalkOrder of the next entry WalkDir visits
    pages,       \* main's pages
    idx,         \* index of the render loop's current element (1-based)
    page,        \* the render loop's variable page (a copy of pages[idx])
    buf,         \* main's buf (the bytes.Buffer)
    hist         \* what happened so far: errors reported, Execute and
                 \* WriteFile calls

vars == <<pc, dateFormats, arg, ret, site, disk, baseTmpl, walk, pages, idx,
          page, buf, hist>>

-----------------------------------------------------------------------------
(* Bounds of the model. *)

\* Longest readMeta input, in tokens of MetaTokens.
MaxTok == 5

\* Most source files a site holds.
MaxFiles == 3

\* Longest user template, in tokens of TmplTokens.
MaxTmplLen == 3

\* Largest day of the month (and month, and year offset) a date input holds.
MaxDay == 2

-----------------------------------------------------------------------------
(* Go's string and byte-slice helpers, as the standard library computes     *)
(* them.                                                                    *)

Min(S) == CHOOSE x \in S : \A y \in S : x <= y

\* s[lo:] for a 0-based lo.
From(s, lo) == SubSeq(s, lo + 1, Len(s))

\* strings.HasPrefix / strings.HasSuffix
HasPrefix(s, p) == Len(s) >= Len(p) /\ SubSeq(s, 1, Len(p)) = p
HasSuffix(s, p) == Len(s) >= Len(p) /\ From(s, Len(s) - Len(p)) = p

\* strings.TrimSuffix
TrimSuffix(s, p) == IF HasSuffix(s, p) THEN SubSeq(s, 1, Len(s) - Len(p)) ELSE s

\* bytes.Index / strings.Index: the 0-based index of the first instance of
\* sep in s, or -1.
Index(s, sep) ==
    LET at == {k \in 0..(Len(s) - Len(sep)) : SubSeq(s, k + 1, k + Len(sep)) = sep}
    IN  IF at = {} THEN -1 ELSE Min(at)

\* strings.Split(s, sep) for a non-empty sep: all the pieces, n+1 of them
\* for n separators.
RECURSIVE Split(_, _)
Split(s, sep) ==
    LET i == Index(s, sep)
    IN  IF i = -1 THEN <<s>>
        ELSE <<SubSeq(s, 1, i)>> \o Split(From(s, i + Len(sep)), sep)

\* strings.SplitN(s, sep, 2): at most two pieces, the second unsplit.
SplitN2(s, sep) ==
    LET i == Index(s, sep)
    IN  IF i = -1 THEN <<s>> ELSE <<SubSeq(s, 1, i), From(s, i + Len(sep))>>

\* unicode.IsSpace on the characters of the model's alphabet.
IsSpace(c) == c \in {" ", "\n", "\t", "\r"}

RECURSIVE TrimLeft(_)
TrimLeft(s) == IF s # <<>> /\ IsSpace(Head(s)) THEN TrimLeft(Tail(s)) ELSE s

RECURSIVE TrimRight(_)
TrimRight(s) ==
    IF s # <<>> /\ IsSpace(s[Len(s)]) THEN TrimRight(SubSeq(s, 1, Len(s) - 1)) ELSE s

\* strings.TrimSpace
TrimSpace(s) == TrimRight(TrimLeft(s))

\* The byte value of a character of the model's alphabet.
ByteVal(c) ==
    CASE c = "\t" -> 9  [] c = "\n" -> 10 [] c = "\r" -> 13 [] c = " " -> 32
      [] c = "-" -> 45  [] c = "." -> 46  [] c = "/" -> 47  [] c = "0" -> 48
      [] c = "1" -> 49  [] c = "2" -> 50  [] c = ":" -> 58  [] c = "A" -> 65
      [] c = "B" -> 66  [] c = "C" -> 67  [] c = "D" -> 68  [] c = "a" -> 97
      [] c = "b" -> 98  [] c = "d" -> 100 [] c = "e" -> 101 [] c = "h" -> 104
      [] c = "i" -> 105 [] c = "j" -> 106 [] c = "k" -> 107 [] c = "l" -> 108
      [] c = "m" -> 109 [] c = "n" -> 110 [] c = "s" -> 115 [] c = "t" -> 116
      [] c = "v" -> 118 [] c = "x" -> 120
      [] OTHER -> 127

\* strings.Compare: -1, 0 or 1, comparing byte by byte.
RECURSIVE Compare(_, _)
Compare(a, b) ==
    IF a = <<>> /\ b = <<>> THEN 0
    ELSE IF a = <<>> THEN -1
    ELSE IF b = <<>> THEN 1
    ELSE IF ByteVal(Head(a)) < ByteVal(Head(b)) THEN -1
    ELSE IF ByteVal(Head(a)) > ByteVal(Head(b)) THEN 1
    ELSE Compare(Tail(a), Tail(b))

-----------------------------------------------------------------------------
(* Go maps from string to string: nil is TRUE for the nil map, kv holds    *)
(* the entries.  Reading a nil map is reading an empty one.                *)

NilMap == [nil |-> TRUE, kv |-> <<>>]
MakeMap == [nil |-> FALSE, kv |-> <<>>]

MapLen(m) == Cardinality(DOMAIN m.kv)
\* m[k]: the zero value "" for a missing key.
MapGet(m, k) == IF k \in DOMAIN m.kv THEN m.kv[k] ELSE <<>>
\* m[k] = v
MapSet(m, k, v) ==
    [m EXCEPT !.kv = [x \in (DOMAIN m.kv) \cup {k} |-> IF x = k THEN v ELSE m.kv[x]]]

-----------------------------------------------------------------------------
(* readMeta *)

delim == <<"-", "-", "-">>
Colon == <<":">>
Newline == <<"\n">>

\* The loop body with the line split at every colon.
MetaLineSplitAll(meta, line) ==
    LET keyval == Split(line, Colon)
    IN  IF Len(keyval) = 2
        THEN MapSet(meta, TrimSpace(keyval[1]), TrimSpace(keyval[2]))
        ELSE meta

\* The body of readMeta's loop for one line.
MetaLine(meta, line) ==
    LET keyval == SplitN2(line, Colon)
    IN  IF Len(keyval) = 2
        THEN MapSet(meta, TrimSpace(keyval[1]), TrimSpace(keyval[2]))
        ELSE meta

\* readMeta's loop over lines[k..].
RECURSIVE MetaLoop(_, _, _)
MetaLoop(meta, lines, k) ==
    IF k > Len(lines) THEN meta
    ELSE MetaLoop(MetaLine(meta, lines[k]), lines, k + 1)

\* A no-preamble result that drops the first three bytes.
noPreambleCut(b) == [meta |-> NilMap, body |-> From(b, 3), panic |-> FALSE]

\* readMeta's result for an input without a preamble: return nil, b.
noPreamble(b) == [meta |-> NilMap, body |-> b, panic |-> FALSE]

\* The index at which readMeta cuts the body, given i.
BodyStart(i) == i + 6

\* readMeta(b): the metadata and the body; panic is TRUE when a slice
\* expression is out of range.
readMeta(b) ==
    IF Len(b) < 3 \/ SubSeq(b, 1, 3) # delim
    THEN noPreamble(b)
    ELSE LET i == Index(From(b, 3), delim)
         IN  IF i = -1
             THEN noPreamble(b)
             ELSE IF BodyStart(i) > Len(b) \/ i + 3 > Len(b)
             THEN [meta |-> NilMap, body |-> <<>>, panic |-> TRUE]
             ELSE [meta  |-> MetaLoop(MakeMap, Split(SubSeq(b, 4, i + 3), Newline), 1),
                   body  |-> From(b, BodyStart(i)),
                   panic |-> FALSE]

-----------------------------------------------------------------------------
(* Paths *)

Max(S) == CHOOSE x \in S : \A y \in S : x >= y

\* filepath.Ext: the suffix beginning at the final dot in the final element
\* of path; empty if there is no dot.
Ext(path) ==
    LET dots == {k \in 1..Len(path) :
                    path[k] = "." /\ \A j \in k..Len(path) : path[j] # "/"}
    IN  IF dots = {} THEN <<>> ELSE From(path, Max(dots) - 1)

\* filepath.Join(dir, name) for clean, non-empty operands.
Join(dir, name) == dir \o <<"/">> \o name

\* filepath.Rel(basepath, targpath) for clean absolute paths, targpath at or
\* under basepath; an error otherwise (the model never walks out of the root).
Rel(basepath, targpath) ==
    IF targpath = basepath THEN [path |-> <<".">>, err |-> FALSE]
    ELSE IF HasPrefix(targpath, basepath \o <<"/">>)
    THEN [path |-> From(targpath, Len(basepath) + 1), err |-> FALSE]
    ELSE [path |-> <<>>, err |-> TRUE]

mdExt == <<".", "m", "d">>
htmlExt == <<".", "h", "t", "m", "l">>
indexHtml == <<"i", "n", "d", "e", "x", ".", "h", "t", "m", "l">>

-----------------------------------------------------------------------------
(* Page, Pages *)

dateKey == <<"d", "a", "t", "e">>

\* Page.sortKey
sortKey(p) == MapGet(p.Meta, dateKey)

\* Less with a non-strict comparison.
LessOrEqual(p, i, j) == Compare(sortKey(p[i]), sortKey(p[j])) >= 0

\* Pages.Less
Less(p, i, j) == Compare(sortKey(p[i]), sortKey(p[j])) > 0

\* Pages.Swap
Swap(p, i, j) == [p EXCEPT ![i] = p[j], ![j] = p[i]]

\* The URL readPage derives from relpath.
pageUrl(relpath) ==
    TrimSuffix(TrimSuffix(relpath, Ext(relpath)) \o htmlExt, indexHtml)

\* readPage(abspath, siteDir), given the outcome of os.ReadFile(abspath):
\* the page, or fatal (log.Fatal) when the read or filepath.Rel fails.
readPage(abspath, siteDir, read) ==
    IF read.err THEN [fatal |-> TRUE]
    ELSE LET m   == readMeta(read.text)
             rel == Rel(siteDir, abspath)
         IN  IF m.panic \/ rel.err THEN [fatal |-> TRUE]
             ELSE [fatal |-> FALSE,
                   page  |-> [Meta    |-> m.meta,
                              Url     |-> pageUrl(rel.path),
                              AbsPath |-> abspath,
                              RelPath |-> rel.path,
                              Text    |-> m.body,
                              HTML    |-> <<>>]]

\* sort.Stable(pages): for fewer than 20 elements (its block size) it is one
\* insertion sort over Less and Swap.  Indices here are 1-based.
RECURSIVE insertionInner(_, _)
insertionInner(p, j) ==
    IF j > 1 /\ Less(p, j, j - 1) THEN insertionInner(Swap(p, j, j - 1), j - 1) ELSE p

RECURSIVE insertionSort(_, _)
insertionSort(p, i) ==
    IF i > Len(p) THEN p ELSE insertionSort(insertionInner(p, i), i + 1)

sortStable(p) == insertionSort(p, 2)

\* The output path derived the way the URL is: index.html stripped.
outPathLikeUrl(abspath) ==
    TrimSuffix(TrimSuffix(abspath, Ext(abspath)) \o htmlExt, indexHtml)

\* The output path the render loop derives from page.AbsPath.
outPathOf(abspath) == TrimSuffix(abspath, Ext(abspath)) \o htmlExt

-----------------------------------------------------------------------------
(* dateformat *)
(*                                                                         *)
(* A time is [y, m, d, hh, mn] in UTC.  A date text is either the text a   *)
(* layout prints, [lay, f] with f the fields that layout shows, or a text  *)
(* no layout parses (the empty string is one), with lay = "none".          *)

rfc822Layout == "02 Jan 06 15:04 MST"
isoLayout == "2006-01-02"
shortLayout == "02 Jan 2006"

\* The initial value of dateFormats.
dateFormatsInit ==
    [n \in {"rfc822", "yyyy-mm-dd", "shortdate"} |->
        CASE n = "rfc822" -> rfc822Layout
          [] n = "yyyy-mm-dd" -> isoLayout
          [] n = "shortdate" -> shortLayout]

\* The zero time.Time: January 1, year 1, 00:00 UTC.
zeroTime == [y |-> 1, m |-> 1, d |-> 1, hh |-> 0, mn |-> 0]

\* Time.Format(layout): RFC822 shows a two-digit year and the clock, the two
\* date layouts show the full year and no clock.
timeFormat(t, layout) ==
    IF layout = rfc822Layout
    THEN [lay |-> layout, f |-> <<t.d, t.m, t.y % 100, t.hh, t.mn>>]
    ELSE [lay |-> layout, f |-> <<t.d, t.m, t.y>>]

\* time.Parse(layout, value): the time and whether parsing failed; on
\* failure the time is the zero time.  A two-digit year yy is 19yy from 69
\* on and 20yy below.
timeParse(layout, value) ==
    IF value.lay # layout THEN [t |-> zeroTime, err |-> TRUE]
    ELSE IF layout = rfc822Layout
    THEN [t |-> [y  |-> IF value.f[3] >= 69 THEN 1900 + value.f[3] ELSE 2000 + value.f[3],
                 m  |-> value.f[2], d |-> value.f[1],
                 hh |-> value.f[4], mn |-> value.f[5]],
          err |-> FALSE]
    ELSE [t |-> [y |-> value.f[3], m |-> value.f[2], d |-> value.f[1], hh |-> 0, mn |-> 0],
          err |-> FALSE]

\* Whether dateFormats[name] is present, given the map.
lookupOk(formats, name) == name \in DOMAIN formats

emptyText == [lay |-> "none", f |-> <<>>]

\* dateformat with the error of time.Parse returned to the caller.
dateformatStrict(formats, src, dst, input) ==
    IF ~lookupOk(formats, src) THEN [out |-> emptyText, err |-> TRUE, bad |-> src]
    ELSE IF ~lookupOk(formats, dst) THEN [out |-> emptyText, err |-> TRUE, bad |-> dst]
    ELSE LET r == timeParse(formats[src], input)
         IN  IF r.err THEN [out |-> emptyText, err |-> TRUE, bad |-> ""]
             ELSE [out |-> timeFormat(r.t, formats[dst]), err |-> FALSE, bad |-> ""]

\* funcs["dateformat"], reading the map formats.
dateformat(formats, src, dst, input) ==
    IF ~lookupOk(formats, src) THEN [out |-> emptyText, err |-> TRUE, bad |-> src]
    ELSE IF ~lookupOk(formats, dst) THEN [out |-> emptyText, err |-> TRUE, bad |-> dst]
    ELSE LET t == timeParse(formats[src], input).t
         IN  [out |-> timeFormat(t, formats[dst]), err |-> FALSE, bad |-> ""]

-----------------------------------------------------------------------------
(* readTmpl *)
(*                                                                         *)
(* A template text is a sequence of tokens: plain text ("t"), the          *)
(* placeholder, a field action, a call of dateformat, and an unclosed      *)
(* action, which does not parse.  A template is its name, the functions    *)
(* bound to it and the text it was parsed from.                            *)

placeholder == "STYLE_PLACEHOLDER"

funcs == {"dateformat"}

\* The function an action token calls, if any.
calls(tok) == IF tok = "{{dateformat}}" THEN {"dateformat"} ELSE {}

\* template.New(name)
tmplNew(name) == [name |-> name, funcs |-> {}, parsed |-> FALSE, text |-> <<>>]

\* Template.Funcs
tmplFuncs(t, fm) == [t EXCEPT !.funcs = t.funcs \cup fm]

\* Template.Parse: an error for an unclosed action or a call of a
\* function not bound to the template; on error the template is unchanged.
tmplParse(t, text) ==
    IF \E k \in 1..Len(text) : text[k] = "{{" \/ ~(calls(text[k]) \subseteq t.funcs)
    THEN [tmpl |-> t, err |-> TRUE]
    ELSE [tmpl |-> [t EXCEPT !.parsed = TRUE, !.text = text], err |-> FALSE]

\* strings.Replace(s, old, new, -1): every occurrence.
RECURSIVE replaceAll(_, _, _)
replaceAll(s, old, new) ==
    IF s = <<>> THEN <<>>
    ELSE (IF Head(s) = old THEN new ELSE <<Head(s)>>) \o replaceAll(Tail(s), old, new)

\* strings.Replace(s, old, new, 1) on token sequences: the first occurrence.
replaceFirst(s, old, new) ==
    LET at == {k \in 1..Len(s) : s[k] = old}
    IN  IF at = {} THEN s
        ELSE SubSeq(s, 1, Min(at) - 1) \o new \o SubSeq(s, Min(at) + 1, Len(s))

\* The template readTmpl starts from.
tmplBaseOf(fm) == tmplFuncs(tmplNew("base"), fm)

\* readTmpl, given the outcome of os.ReadFile(base.tmpl) and the embedded
\* defaults: the template, or panic when template.Must fails.
readTmpl(read, defaultHTML, defaultCSS) ==
    LET tmplBase == tmplBaseOf(funcs)
        user     == tmplParse(tmplBase, read.text)
        deflt    == tmplParse(tmplBase, replaceFirst(defaultHTML, placeholder, defaultCSS))
    IN  IF ~read.err /\ ~user.err
        THEN [tmpl |-> user.tmpl, panic |-> FALSE]
        ELSE [tmpl |-> deflt.tmpl, panic |-> deflt.err]

-----------------------------------------------------------------------------
(* The state of a run that has not started: what the specifications of the *)
(* single functions keep the variables of main at.                         *)

noTmpl == [name |-> "", funcs |-> {}, parsed |-> FALSE, text |-> <<>>]

noPage == [Meta |-> NilMap, Url |-> <<>>, AbsPath |-> <<>>, RelPath |-> <<>>,
           Text |-> <<>>, HTML |-> <<>>]

noHist == [walkErr |-> FALSE, readErr |-> FALSE, found |-> <<>>, sorted |-> <<>>,
           renders |-> <<>>, writes |-> <<>>, failed |-> "", disk0 |-> <<>>]

mainIdle ==
    /\ site = <<>> /\ disk = <<>> /\ baseTmpl = noTmpl /\ walk = 0
    /\ pages = <<>> /\ idx = 0 /\ page = noPage /\ buf = <<>> /\ hist = noHist

mainVars == <<site, disk, baseTmpl, walk, pages, idx, page, buf, hist>>

-----------------------------------------------------------------------------
(* SpecMeta: readMeta applied to every input built from at most MaxTok     *)
(* tokens.                                                                 *)

MetaTokens ==
    { delim,
      <<"-">>,
      <<"k", ":", "v", "\n">>,
      <<" ", "k", " ", ":", " ", "j", ":", "v", " ">>,
      <<"x">>,
      Newline,
      Colon }

RECURSIVE Flatten(_)
Flatten(ss) == IF ss = <<>> THEN <<>> ELSE Head(ss) \o Flatten(Tail(ss))

MetaInputs == {Flatten(ts) : ts \in UNION {[1..n -> MetaTokens] : n \in 0..MaxTok}}

InitMeta ==
    /\ pc = "meta"
    /\ dateFormats = dateFormatsInit
    /\ arg \in MetaInputs
    /\ ret = <<>>
    /\ mainIdle

CallReadMeta ==
    /\ pc = "meta"
    /\ ret' = readMeta(arg)
    /\ pc' = "metaDone"
    /\ UNCHANGED <<dateFormats, arg, mainVars>>

NextMeta == CallReadMeta

SpecMeta == InitMeta /\ [][NextMeta]_vars

\* The inputs with a second delimiter after the opening one: an occurrence
\* of --- that starts at 0-based index 3 or later.
LaterDelims(b) == {k \in 3..(Len(b) - 3) : SubSeq(b, k + 1, k + 3) = delim}

\* The 1-based position of the first colon of a line, 0 if it has none.
FirstColon(l) ==
    IF \E k \in 1..Len(l) : l[k] = ":" THEN Min({k \in 1..Len(l) : l[k] = ":"}) ELSE 0

KeyOf(l) == TrimSpace(SubSeq(l, 1, FirstColon(l) - 1))
ValOf(l) == TrimSpace(SubSeq(l, FirstColon(l) + 1, Len(l)))

\* C2: an input that does not begin with --- (shorter inputs included), or
\* that begins with --- and has no later ---, comes back whole as the body,
\* with an empty metadata map and no failure.
C2_NoPreambleIdentity ==
    (pc = "metaDone" /\ (~HasPrefix(arg, delim) \/ LaterDelims(arg) = {}))
        => /\ ~ret.panic
           /\ MapLen(ret.meta) = 0
           /\ ret.body = arg

\* An unterminated preamble holding a key: value line came back whole.
C2_Witness ==
    /\ pc = "metaDone"
    /\ arg = delim \o <<"k", ":", "v", "\n">>
    /\ ret.body = arg
    /\ MapLen(ret.meta) = 0

\* C3: for an input that begins with --- and has a later ---, the map holds
\* exactly the trimmed keys of the lines (of the text between the two
\* delimiters) that have a colon, each with the trimmed text after the
\* first colon of the last line with that key; the body is what follows the
\* second delimiter, cut 3 bytes past the start of the match, inside the
\* input.
C3_PreambleParsed ==
    (pc = "metaDone" /\ HasPrefix(arg, delim) /\ LaterDelims(arg) # {})
        => LET p     == Min(LaterDelims(arg))
               text  == SubSeq(arg, 4, p)
               lines == Split(text, Newline)
               keyed == {n \in 1..Len(lines) : FirstColon(lines[n]) # 0}
           IN  /\ ~ret.panic
               /\ DOMAIN ret.meta.kv = {KeyOf(lines[n]) : n \in keyed}
               /\ \A n \in keyed :
                    (\A n2 \in keyed : n2 > n => KeyOf(lines[n2]) # KeyOf(lines[n]))
                        => ret.meta.kv[KeyOf(lines[n])] = ValOf(lines[n])
               /\ p + 3 <= Len(arg)
               /\ arg = delim \o text \o delim \o ret.body

\* A preamble with two lines for the key k, the second with two colons, and
\* a body: the later line's value won, split at its first colon only.
C3_Witness ==
    /\ pc = "metaDone"
    /\ arg = delim \o <<"k", ":", "v", "\n">>
                   \o <<" ", "k", " ", ":", " ", "j", ":", "v", " ">>
                   \o delim \o <<"x">>
    /\ ret.meta.kv[<<"k">>] = <<"j", ":", "v">>
    /\ ret.body = <<"x">>

-----------------------------------------------------------------------------
(* Spec: a run of main on a site directory.                                *)

\* os.Args[1], and the entries a site may hold, in the order WalkDir visits
\* them: depth first, each directory's entries sorted by name.
siteDir == <<"/", "s">>

aHtml == Join(siteDir, <<"a", ".", "h", "t", "m", "l">>)
aMd == Join(siteDir, <<"a", ".", "m", "d">>)
tmplPath == Join(siteDir, <<"b", "a", "s", "e", ".", "t", "m", "p", "l">>)
subDir == Join(siteDir, <<"d">>)
dIndexHtml == Join(subDir, indexHtml)
dIndexMd == Join(subDir, <<"i", "n", "d", "e", "x", ".", "m", "d">>)
rootIndexHtml == Join(siteDir, indexHtml)
rootIndexMd == Join(siteDir, <<"i", "n", "d", "e", "x", ".", "m", "d">>)
xindexHtml == Join(siteDir, <<"x">> \o indexHtml)
xindexMd == Join(siteDir, <<"x", "i", "n", "d", "e", "x", ".", "m", "d">>)

WalkOrder ==
    << siteDir, aHtml, aMd, tmplPath, subDir, dIndexHtml, dIndexMd,
       rootIndexHtml, rootIndexMd, xindexHtml, xindexMd >>

SourcePaths == {aMd, dIndexMd, rootIndexMd, xindexMd}

\* The documents a source file may hold: dated 2, dated 1, with an empty
\* date value, and with no preamble.
docDate2 == delim \o <<"\n", "d", "a", "t", "e", ":", "2", "\n">> \o delim \o <<"\n", "A">>
docDate1 == delim \o <<"\n", "d", "a", "t", "e", ":", " ", "1", "\n">> \o delim \o <<"\n", "B">>
docDateEmpty == delim \o <<"\n", "d", "a", "t", "e", ":", "\n">> \o delim \o <<"\n", "C">>
docPlain == <<"D">>

Documents == {docDate2, docDate1, docDateEmpty, docPlain}

\* The user templates a site may hold: one that parses, one that does not.
UserTemplates == {<<"t", "{{.}}">>, <<"t", "{{">>}

\* The embedded default assets (github-markdown.tmpl, github-markdown.css).
defaultHTML == <<"t", placeholder, "{{.}}">>
defaultCSS == <<"css">>

\* The data main hands to Execute.
dataModel(pg, ps) == [Page |-> pg, Pages |-> ps]

noData == dataModel(noPage, <<>>)

\* Generated bytes, in pieces: the markup of a body, what a layout renders
\* from its data, or what an earlier run left on disk.
chunk(kind, body, layout, data) ==
    [kind |-> kind, body |-> body, layout |-> layout, data |-> data]

\* The bytes a generated file of an earlier run holds.
staleBytes == <<chunk("stale", <<>>, <<>>, noData)>>

\* Whether WalkDir finds an entry at path.
Exists(path) ==
    \/ path = siteDir
    \/ path \in DOMAIN site
    \/ path \in DOMAIN disk
    \/ path = subDir /\ (dIndexMd \in DOMAIN site \/ dIndexHtml \in DOMAIN disk)

\* The next entry WalkDir visits at or after position k of WalkOrder, one
\* past the end if there is none.
NextEntry(k) ==
    LET rest == {n \in k..Len(WalkOrder) : Exists(WalkOrder[n])}
    IN  IF rest = {} THEN Len(WalkOrder) + 1 ELSE Min(rest)

\* The first position after the entries under the directory at position k.
AfterDir(k) ==
    LET under == {n \in (k + 1)..Len(WalkOrder) :
                    HasPrefix(WalkOrder[n], WalkOrder[k] \o <<"/">>)}
    IN  IF under = {} THEN k + 1 ELSE Max(under) + 1

InitMain ==
    /\ pc = "start"
    /\ dateFormats = dateFormatsInit
    /\ arg = <<>>
    /\ ret = <<>>
    /\ \E present \in SUBSET SourcePaths :
          /\ Cardinality(present) <= MaxFiles
          /\ \E docs \in [present -> Documents] :
             \E user \in {<<>>} \cup UserTemplates :
                site = [f \in present \cup (IF user = <<>> THEN {} ELSE {tmplPath}) |->
                            IF f = tmplPath THEN user ELSE docs[f]]
    /\ \E stale \in BOOLEAN :
          disk = [f \in (IF stale THEN {outPathOf(s) : s \in DOMAIN site \ {tmplPath}}
                                  ELSE {}) |-> staleBytes]
    /\ baseTmpl = noTmpl
    /\ walk = 0
    /\ pages = <<>>
    /\ idx = 0
    /\ page = noPage
    /\ buf = <<>>
    /\ hist = [noHist EXCEPT !.disk0 = disk]

\* main, lines 136-137: baseTmpl := readTmpl(siteDir).  Reading base.tmpl
\* fails when the file is absent and may fail when it is present.
ReadTmpl ==
    /\ pc = "start"
    /\ \E unreadable \in BOOLEAN :
          LET read == IF tmplPath \in DOMAIN site /\ ~unreadable
                      THEN [text |-> site[tmplPath], err |-> FALSE]
                      ELSE [text |-> <<>>, err |-> TRUE]
              r    == readTmpl(read, defaultHTML, defaultCSS)
          IN  /\ baseTmpl' = r.tmpl
              /\ pc' = IF r.panic THEN "panic" ELSE "walk"
    /\ walk' = 1
    /\ UNCHANGED <<dateFormats, arg, ret, site, disk, pages, idx, page, buf, hist>>

\* The callback main hands to WalkDir, for an entry that is not a source
\* file: it returns nil, whatever err it was given.
callbackIgnores(path) == Ext(path) # mdExt

\* WalkDir on the root: os.Lstat may fail, and then the callback is called
\* once with the error and the walk is over; os.ReadDir may fail, and then
\* the callback is called a second time with the error and the walk goes on
\* over no entries.
WalkRoot ==
    /\ pc = "walk"
    /\ walk = 1
    /\ callbackIgnores(WalkOrder[walk])
    /\ \E e \in {"ok", "lstat", "readdir"} :
          /\ walk' = IF e = "ok" THEN NextEntry(2) ELSE Len(WalkOrder) + 1
          /\ hist' = [hist EXCEPT !.walkErr = @ \/ e # "ok"]
    /\ UNCHANGED <<pc, dateFormats, arg, ret, site, disk, baseTmpl, pages, idx, page, buf>>

\* WalkDir on a subdirectory: the callback is called with a nil error, then
\* os.ReadDir may fail, and then the callback is called again with the
\* error and the directory's entries are not visited.
WalkSubdir ==
    /\ pc = "walk"
    /\ walk \in 2..Len(WalkOrder)
    /\ WalkOrder[walk] = subDir
    /\ callbackIgnores(WalkOrder[walk])
    /\ \E e \in {"ok", "readdir"} :
          /\ walk' = IF e = "ok" THEN NextEntry(walk + 1) ELSE NextEntry(AfterDir(walk))
          /\ hist' = [hist EXCEPT !.walkErr = @ \/ e # "ok"]
    /\ UNCHANGED <<pc, dateFormats, arg, ret, site, disk, baseTmpl, pages, idx, page, buf>>

\* WalkDir on a file that is not a source file: the callback returns nil.
WalkOther ==
    /\ pc = "walk"
    /\ walk \in 2..Len(WalkOrder)
    /\ WalkOrder[walk] # subDir
    /\ callbackIgnores(WalkOrder[walk])
    /\ walk' = NextEntry(walk + 1)
    /\ UNCHANGED <<pc, dateFormats, arg, ret, site, disk, baseTmpl, pages, idx, page, buf, hist>>

\* WalkDir on a source file: the callback reads the page and appends it;
\* readPage ends the run when the file cannot be read.
WalkSource ==
    /\ pc = "walk"
    /\ walk \in 2..Len(WalkOrder)
    /\ ~callbackIgnores(WalkOrder[walk])
    /\ \E unreadable \in BOOLEAN :
          LET path == WalkOrder[walk]
              read == IF unreadable THEN [text |-> <<>>, err |-> TRUE]
                      ELSE [text |-> site[path], err |-> FALSE]
              r    == readPage(path, siteDir, read)
          IN  IF r.fatal
              THEN /\ pc' = "failed"
                   /\ hist' = [hist EXCEPT !.readErr = TRUE, !.failed = "read"]
                   /\ UNCHANGED <<pages, walk>>
              ELSE /\ pages' = Append(pages, r.page)
                   /\ walk' = NextEntry(walk + 1)
                   /\ hist' = [hist EXCEPT !.found = Append(@, r.page)]
                   /\ pc' = pc
    /\ UNCHANGED <<dateFormats, arg, ret, site, disk, baseTmpl, idx, page, buf>>

\* The position of main at the head of the render loop for element k.
loopHead(ps, k) == IF k > Len(ps) THEN "done" ELSE "convert"

\* The loop variable at the head of the render loop for element k.
loopVar(ps, k) == IF k > Len(ps) THEN noPage ELSE ps[k]

\* main, line 148, once WalkDir has returned (its error is dropped), up to
\* the head of the render loop.
SortPages ==
    /\ pc = "walk"
    /\ walk > Len(WalkOrder)
    /\ pages' = sortStable(pages)
    /\ idx' = 1
    /\ pc' = loopHead(pages', 1)
    /\ page' = loopVar(pages', 1)
    /\ hist' = [hist EXCEPT !.sorted = pages']
    /\ UNCHANGED <<dateFormats, arg, ret, site, disk, baseTmpl, walk, buf>>

\* goldmark's Convert, a black box: the markup of a body.
Markup(body) == chunk("markup", body, <<>>, noData)

\* Template.Execute, a black box: what a layout renders from its data.
Render(tmpl, data) == chunk("render", <<>>, tmpl.text, data)

\* A Reset that leaves the buffer as it is.
bufKeep(b) == b

\* bytes.Buffer: Reset, Write and Bytes.
bufReset(b) == <<>>
bufWrite(b, c) == Append(b, c)
bufBytes(b) == b

\* A failure that is logged and ends the run as if it had completed.
fatalReturns == "done"

\* Where main is after log.Fatal.
fatalPc == "failed"

\* main, lines 160-174: the output path, the conversion, page.HTML.
Convert ==
    /\ pc = "convert"
    /\ \E ok \in BOOLEAN :
          IF ok
          THEN /\ buf' = bufWrite(bufReset(buf), Markup(page.Text))
               /\ page' = [page EXCEPT !.HTML = bufBytes(buf')]
               /\ pc' = "execute"
               /\ hist' = hist
          ELSE /\ buf' = bufReset(buf)
               /\ pc' = fatalPc
               /\ hist' = [hist EXCEPT !.failed = "convert"]
               /\ page' = page
    /\ UNCHANGED <<dateFormats, arg, ret, site, disk, baseTmpl, walk, pages, idx>>

\* main, lines 176-184: the layout is executed into the buffer.
Execute ==
    /\ pc = "execute"
    /\ \E ok \in BOOLEAN :
          IF ok
          THEN /\ buf' = bufWrite(bufReset(buf), Render(baseTmpl, dataModel(page, pages)))
               /\ pc' = "write"
               /\ hist' = [hist EXCEPT !.renders = Append(@, dataModel(page, pages))]
          ELSE /\ buf' = bufReset(buf)
               /\ pc' = fatalPc
               /\ hist' = [hist EXCEPT !.failed = "execute"]
    /\ UNCHANGED <<dateFormats, arg, ret, site, disk, baseTmpl, walk, pages, idx, page>>

\* What a failed os.WriteFile(name, data, perm) may leave at name: the file
\* as it was (it could not be opened), or created or truncated with none,
\* or with all, of data written.
failedWrite(files, name, data) ==
    { files,
      [f \in (DOMAIN files) \cup {name} |-> IF f = name THEN <<>> ELSE files[f]],
      [f \in (DOMAIN files) \cup {name} |-> IF f = name THEN data ELSE files[f]] }

\* main, lines 185-189: the rendered bytes are written, and the loop goes
\* to its next element.
WriteFile ==
    /\ pc = "write"
    /\ LET outPath == outPathOf(page.AbsPath)
           body    == bufBytes(buf)
       IN  \E ok \in BOOLEAN :
              IF ok
              THEN /\ disk' = [f \in (DOMAIN disk) \cup {outPath} |->
                                  IF f = outPath THEN body ELSE disk[f]]
                   /\ hist' = [hist EXCEPT !.writes =
                                  Append(@, [path |-> outPath, perm |-> "0600", data |-> body])]
                   /\ idx' = idx + 1
                   /\ pc' = loopHead(pages, idx + 1)
                   /\ page' = loopVar(pages, idx + 1)
              ELSE /\ disk' \in failedWrite(disk, outPath, body)
                   /\ hist' = [hist EXCEPT !.failed = "write"]
                   /\ pc' = fatalPc
                   /\ UNCHANGED <<idx, page>>
    /\ UNCHANGED <<dateFormats, arg, ret, site, baseTmpl, walk, pages, buf>>

Next ==
    \/ ReadTmpl
    \/ WalkRoot
    \/ WalkSubdir
    \/ WalkOther
    \/ WalkSource
    \/ SortPages
    \/ Convert
    \/ Execute
    \/ WriteFile

Spec == InitMain /\ [][Next]_vars

-----------------------------------------------------------------------------
(* Claims about a run. *)

\* main is past sort.Stable.
AfterSort ==
    \/ pc \in {"convert", "execute", "write", "done"}
    \/ pc = "failed" /\ hist.failed \in {"convert", "execute", "write"}

PosIn(seq, x) == CHOOSE k \in 1..Len(seq) : seq[k] = x

HasDate(p) == dateKey \in DOMAIN p.Meta.kv
DateOf(p) == IF HasDate(p) THEN p.Meta.kv[dateKey] ELSE <<>>

\* The registry is a permutation of the discovered documents, in descending
\* order of date string, documents with equal date strings in discovery
\* order.
SortedStably ==
    /\ Len(pages) = Len(hist.found)
    /\ \A k \in 1..Len(pages) : \E n \in 1..Len(hist.found) : pages[k] = hist.found[n]
    /\ \A i, j \in 1..Len(pages) : i # j => pages[i] # pages[j]
    /\ \A k \in 1..(Len(pages) - 1) : Compare(DateOf(pages[k]), DateOf(pages[k + 1])) >= 0
    /\ \A i, j \in 1..Len(pages) :
          (i < j /\ DateOf(pages[i]) = DateOf(pages[j]))
              => PosIn(hist.found, pages[i]) < PosIn(hist.found, pages[j])

\* C1 as stated: after the sort the registry is sorted stably and every
\* document without a date key comes after every document that has one.
C1_Original ==
    AfterSort =>
        /\ SortedStably
        /\ \A i, j \in 1..Len(pages) :
              (~HasDate(pages[i]) /\ HasDate(pages[j])) => j < i

\* C1 amended: after the sort the registry is sorted stably and every
\* document without a date key comes after every document whose date value
\* is not empty.
C1_SortedRegistry ==
    AfterSort =>
        /\ SortedStably
        /\ \A i, j \in 1..Len(pages) :
              (~HasDate(pages[i]) /\ HasDate(pages[j]) /\ DateOf(pages[j]) # <<>>) => j < i

\* Three documents, found as: no date, then two dated 2; the sort moved the
\* undated one behind the two, which kept their order.
C1_Witness ==
    /\ AfterSort
    /\ Len(pages) = 3
    /\ ~HasDate(hist.found[1])
    /\ pages[3] = hist.found[1]
    /\ pages[1] = hist.found[2]
    /\ pages[2] = hist.found[3]
    /\ DateOf(pages[1]) = <<"2">>
    /\ DateOf(pages[2]) = <<"2">>

\* The last element of a relative path, and what precedes it.
BaseName(rel) ==
    LET slashes == {k \in 1..Len(rel) : rel[k] = "/"}
    IN  IF slashes = {} THEN rel ELSE From(rel, Max(slashes))
DirPart(rel) == SubSeq(rel, 1, Len(rel) - Len(BaseName(rel)))

indexMd == <<"i", "n", "d", "e", "x", ".", "m", "d">>

\* C4: the URL of index.md is its directory's, and the URL of any other
\* source file is its relative path with .md replaced by .html, unshortened.
C4_UrlShortenedOnlyForIndex ==
    \A k \in 1..Len(hist.found) :
       LET p   == hist.found[k]
           rel == p.RelPath
       IN  /\ HasSuffix(rel, mdExt)
           /\ BaseName(rel) = indexMd => p.Url = DirPart(rel)
           /\ BaseName(rel) # indexMd
                 => p.Url = SubSeq(rel, 1, Len(rel) - Len(mdExt)) \o htmlExt

\* X.html for a source path X.md.
Sibling(abspath) == SubSeq(abspath, 1, Len(abspath) - Len(mdExt)) \o htmlExt

\* C5: documents are rendered and written one at a time in the order of the
\* registry, each to the sibling X.html of its X.md with permission 0600;
\* and when the run completes, every document has its own output file,
\* index.md's named index.html, and no other file has changed.
C5_OneOutputPerSource ==
    /\ Len(hist.renders) \in {Len(hist.writes), Len(hist.writes) + 1}
    /\ \A k \in 1..Len(hist.renders) : hist.renders[k].Page.AbsPath = pages[k].AbsPath
    /\ \A k \in 1..Len(hist.writes) :
          /\ hist.writes[k].path = Sibling(pages[k].AbsPath)
          /\ hist.writes[k].perm = "0600"
          /\ hist.writes[k].data = <<Render(baseTmpl, hist.renders[k])>>
          /\ BaseName(pages[k].RelPath) = indexMd
                => HasSuffix(hist.writes[k].path, <<"/">> \o indexHtml)
    /\ \A i, j \in 1..Len(hist.writes) :
          i # j => hist.writes[i].path # hist.writes[j].path
    /\ pc = "done" =>
          /\ Len(hist.writes) = Len(hist.found)
          /\ DOMAIN disk = (DOMAIN hist.disk0)
                             \cup {hist.writes[k].path : k \in 1..Len(hist.writes)}
          /\ \A k \in 1..Len(hist.writes) : disk[hist.writes[k].path] = hist.writes[k].data
          /\ \A f \in DOMAIN disk :
                (\A k \in 1..Len(hist.writes) : hist.writes[k].path # f)
                    => disk[f] = hist.disk0[f]

\* A completed run over three documents, index.md among them, on a site
\* with output of an earlier run: index.html was overwritten.
C5_Witness ==
    /\ pc = "done"
    /\ Len(pages) = 3
    /\ rootIndexHtml \in DOMAIN hist.disk0
    /\ \E k \in 1..3 :
          /\ pages[k].AbsPath = rootIndexMd
          /\ disk[rootIndexHtml] = hist.writes[k].data
    /\ disk[rootIndexHtml] # hist.disk0[rootIndexHtml]

\* What C6 says of every failure in the render loop but the last clause:
\* the run is in the failed state and takes no further step, no later
\* document was rendered or written, the earlier documents' files hold what
\* was written, and the files of no document hold what they held before.
AbortedCleanly ==
    /\ ~ENABLED Next
    /\ Len(hist.writes) = idx - 1
    /\ Len(hist.renders) = IF hist.failed = "write" THEN idx ELSE idx - 1
    /\ \A k \in 1..(idx - 1) :
          /\ Sibling(pages[k].AbsPath) \in DOMAIN disk
          /\ disk[Sibling(pages[k].AbsPath)] = hist.writes[k].data
    /\ \A f \in (DOMAIN disk) \cup (DOMAIN hist.disk0) :
          (\A k \in 1..idx : Sibling(pages[k].AbsPath) # f)
              => /\ f \in DOMAIN disk
                 /\ f \in DOMAIN hist.disk0
                 /\ disk[f] = hist.disk0[f]

\* The failing document's output file is as it was before the run.
FailingOutputUntouched ==
    LET f == Sibling(pages[idx].AbsPath)
    IN  /\ f \in DOMAIN disk <=> f \in DOMAIN hist.disk0
        /\ f \in DOMAIN disk => disk[f] = hist.disk0[f]

InLoopFailure == pc = "failed" /\ hist.failed \in {"convert", "execute", "write"}

\* C6 as stated: a failure of Convert, Execute or WriteFile ends the run in
\* the failed state at once, with the earlier outputs intact and no output
\* file written for the failing document.
C6_Original ==
    /\ hist.failed # "" => pc = "failed"
    /\ InLoopFailure => (AbortedCleanly /\ FailingOutputUntouched)

\* C6 amended: as stated, but the failing document's output file is
\* untouched only when Convert or Execute failed; when WriteFile failed, that
\* one file may have been created, truncated or written.
C6_AbortOnFailure ==
    /\ hist.failed # "" => pc = "failed"
    /\ InLoopFailure =>
          /\ AbortedCleanly
          /\ hist.failed \in {"convert", "execute"} => FailingOutputUntouched

\* The second document's write failed and truncated its file; the first
\* document's file is on disk.
C6_Witness ==
    /\ pc = "failed"
    /\ hist.failed = "write"
    /\ idx = 2
    /\ Len(pages) = 3
    /\ disk[Sibling(pages[1].AbsPath)] = hist.writes[1].data
    /\ Sibling(pages[2].AbsPath) \in DOMAIN disk
    /\ disk[Sibling(pages[2].AbsPath)] = <<>>

\* C7: once the walk has reported an error, or a source file could not be
\* read, no document is rendered or written and the run does not complete.
C7_DiscoveryFailureFatal ==
    (hist.walkErr \/ hist.readErr) =>
        /\ pc # "done"
        /\ hist.renders = <<>>
        /\ hist.writes = <<>>

\* C10: past the sort, the registry is what the sort produced, with no
\* fragment in it; every Execute was handed that registry as Pages, and as
\* Page the registry's k-th document with, as its fragment, the markup of
\* its own body and nothing else.
C10_RegistryReadOnly ==
    /\ AfterSort =>
          /\ pages = hist.sorted
          /\ \A k \in 1..Len(pages) : pages[k].HTML = <<>>
    /\ \A k \in 1..Len(hist.renders) :
          /\ hist.renders[k].Pages = hist.sorted
          /\ hist.renders[k].Page =
                [hist.sorted[k] EXCEPT !.HTML = <<Markup(hist.sorted[k].Text)>>]
    /\ pc \in {"execute", "write"} => page.HTML = <<Markup(pages[idx].Text)>>

\* The second of three documents, with a body other than the first's, was
\* rendered with the markup of its own body.
C10_Witness ==
    /\ Len(hist.renders) = 2
    /\ Len(pages) = 3
    /\ pages[1].Text # pages[2].Text
    /\ hist.renders[2].Page.HTML = <<Markup(pages[2].Text)>>
    /\ hist.renders[2].Pages = pages

-----------------------------------------------------------------------------
(* SpecTmpl: readTmpl on every state of base.tmpl, absent, unreadable or   *)
(* holding at most MaxTmplLen tokens, and on several default layouts.      *)

TmplTokens == {"t", placeholder, "{{.}}", "{{dateformat}}", "{{"}

TmplTexts == UNION {[1..n -> TmplTokens] : n \in 0..MaxTmplLen}

TmplFiles ==
    {[status |-> st, text |-> <<>>] : st \in {"absent", "unreadable"}}
        \cup {[status |-> "ok", text |-> t] : t \in TmplTexts}

\* Default layouts: with one placeholder, with two, with a call of
\* dateformat, and with no placeholder.
DefaultLayouts ==
    { defaultHTML,
      <<placeholder, "t", placeholder>>,
      <<"t", "{{dateformat}}", placeholder>>,
      <<"t">> }

InitTmpl ==
    /\ pc = "tmpl"
    /\ dateFormats = dateFormatsInit
    /\ arg \in [file : TmplFiles, html : DefaultLayouts]
    /\ ret = <<>>
    /\ mainIdle

CallReadTmpl ==
    /\ pc = "tmpl"
    /\ ret' = readTmpl([text |-> arg.file.text, err |-> arg.file.status # "ok"],
                       arg.html, defaultCSS)
    /\ pc' = "tmplDone"
    /\ UNCHANGED <<dateFormats, arg, mainVars>>

NextTmpl == CallReadTmpl

SpecTmpl == InitTmpl /\ [][NextTmpl]_vars

\* A template text with every action closed (its calls are of dateformat).
WellFormed(text) == \A k \in 1..Len(text) : text[k] # "{{"

\* r is html with the stylesheet in place of its first placeholder, or html
\* itself if it has none.
FirstSubstituted(r, html) ==
    IF \A k \in 1..Len(html) : html[k] # placeholder THEN r = html
    ELSE \E k \in 1..Len(html) :
            /\ html[k] = placeholder
            /\ \A j \in 1..(k - 1) : html[j] # placeholder
            /\ r = SubSeq(html, 1, k - 1) \o defaultCSS \o SubSeq(html, k + 1, Len(html))

\* C8: readTmpl returns, without failing, a parsed template with dateformat
\* bound: the user's when base.tmpl is readable and well formed, otherwise
\* the default layout with the stylesheet in place of its first placeholder.
C8_LayoutResolved ==
    pc = "tmplDone" =>
        LET userOk == arg.file.status = "ok" /\ WellFormed(arg.file.text)
        IN  /\ ~ret.panic
            /\ ret.tmpl.parsed
            /\ "dateformat" \in ret.tmpl.funcs
            /\ userOk => ret.tmpl.text = arg.file.text
            /\ ~userOk => FirstSubstituted(ret.tmpl.text, arg.html)

\* A user template with an unclosed action, and a default layout with two
\* placeholders: the default came back, its first placeholder replaced.
C8_Witness ==
    /\ pc = "tmplDone"
    /\ arg.file = [status |-> "ok", text |-> <<"t", "{{">>]
    /\ arg.html = <<placeholder, "t", placeholder>>
    /\ ret.tmpl.text = <<"css", "t", placeholder>>
    /\ ret.tmpl.parsed

-----------------------------------------------------------------------------
(* SpecDate: dateformat on every pair of names and every date text.        *)

FormatNames == {"rfc822", "yyyy-mm-dd", "shortdate", "iso8601", ""}

Times == [y : {1999, 2000 + MaxDay}, m : 1..MaxDay, d : 1..MaxDay, hh : {0, 15}, mn : {4}]

DateTexts ==
    {timeFormat(t, lay) : t \in Times, lay \in {rfc822Layout, isoLayout, shortLayout}}
        \cup {emptyText}

InitDate ==
    /\ pc = "date"
    /\ dateFormats = dateFormatsInit
    /\ arg \in [src : FormatNames, dst : FormatNames, input : DateTexts]
    /\ ret = <<>>
    /\ mainIdle

CallDateformat ==
    /\ pc = "date"
    /\ ret' = dateformat(dateFormats, arg.src, arg.dst, arg.input)
    /\ pc' = "dateDone"
    /\ UNCHANGED <<dateFormats, arg, mainVars>>

NextDate == CallDateformat

SpecDate == InitDate /\ [][NextDate]_vars

KnownNames == {"rfc822", "yyyy-mm-dd", "shortdate"}

PatternOf(name) ==
    CASE name = "rfc822" -> rfc822Layout
      [] name = "yyyy-mm-dd" -> isoLayout
      [] name = "shortdate" -> shortLayout

\* What January 1 of year 1, 00:00, reads as under a name's pattern.
ZeroText(name) ==
    IF name = "rfc822" THEN [lay |-> rfc822Layout, f |-> <<1, 1, 1, 0, 0>>]
    ELSE [lay |-> PatternOf(name), f |-> <<1, 1, 1>>]

\* C9: dateformat returns an error exactly when src or dst is not a name of
\* the registry; with both known and an input the source pattern does not
\* parse, it returns the zero time under the destination pattern; and the
\* registry is as it was at start.
C9_DateformatErrors ==
    /\ dateFormats = dateFormatsInit
    /\ pc = "dateDone" =>
          /\ ret.err <=> (arg.src \notin KnownNames \/ arg.dst \notin KnownNames)
          /\ (arg.src \in KnownNames /\ arg.dst \in KnownNames
                  /\ arg.input.lay # PatternOf(arg.src))
                => ret.out = ZeroText(arg.dst)

\* Both names known and an input in another pattern than the source's: no
\* error, and the zero time came back.
C9_Witness ==
    /\ pc = "dateDone"
    /\ arg.src = "yyyy-mm-dd"
    /\ arg.dst = "rfc822"
    /\ arg.input.lay = shortLayout
    /\ ~ret.err
    /\ ret.out = [lay |-> rfc822Layout, f |-> <<1, 1, 1, 0, 0>>]

=============================================================================
